---- MODULE Spec2Model ----
(***************************************************************************)
(* Review mutation requests of the movie-review backend and the rating     *)
(* aggregates they maintain: routes/reviews.js (POST /, PUT /:reviewId,    *)
(* DELETE /:reviewId, POST /:reviewId/reaction) and the Review schema's    *)
(* pre('save') / pre('remove') middleware and toggleReaction method in     *)
(* models/Movie.js; and the admin requests on the catalog, POST /, PUT /:id *)
(* and DELETE /:id of routes/movies.js.                                    *)
(*                                                                         *)
(* Every `await` on the document store is one atomic step of a request;    *)
(* requests interleave at those steps.  Rating averages are kept in        *)
(* hundredths (4.5 is 450).  A document's save() persists the paths the    *)
(* handler assigned on its in-memory copy.                                 *)
(***************************************************************************)
EXTENDS Integers, Sequences, FiniteSets, TLC

\* ---------------------------------------------------------------- bounds
NumUsers == 3
NumMovies == 1
NumProcs == 2

\* ------------------------------------------------------ program constants
\* max: [5, ...] of averageRating, in hundredths
MaxAverageRating == 500

Users == 1..NumUsers
Movies == 1..NumMovies
\* identifiers a request can name: the movies of the catalog and one
\* well-formed identifier that names no movie
MovieIds == 1..(NumMovies + 1)
\* review identifiers: one for the review of the initial store and one for
\* each request
ReviewIds == 1..(NumProcs + 1)
Procs == 1..NumProcs
\* ratings the requests submit
RatingInputs == {2, 5}
ReactionTypes == {"like", "dislike"}

\* the value of 0/0 and of everything computed from it
NaN == -1
\* an absent document (findById / findOne returning null)
Null == [null |-> TRUE]
\* an absent field of a request body
Undefined == -2

\* movies, users, reviews: the three collections of the store;
\* req: the request each handler is serving, at one of its awaits, with the
\* locals of the handler and, in `changed`, the collections in which a write
\* of the request has changed a stored value and, in `saved`, the aggregate
\* documents whose save() in the middleware of the request has completed
VARIABLES movies, users, reviews, req

vars == <<movies, users, reviews, req>>

\* ------------------------------------------------------------ pure helpers
RECURSIVE SumRatings(_)
\* allReviews.reduce((sum, review) => sum + review.rating, 0)
SumRatings(S) ==
  IF S = {} THEN 0
  ELSE LET r == CHOOSE x \in S : TRUE IN r.rating + SumRatings(S \ {r})

\* the rounding without Math.round: the decimals after the first dropped
RoundTenths_Truncating(total, n) ==
  IF n = 0 THEN NaN ELSE 10 * ((10 * total) \div n)

\* Math.round((total / n) * 10) / 10, in hundredths; NaN for 0 / 0.
\* (total / n) * 10 has the whole part (10 * total) \div n and the fraction
\* ((10 * total) % n) / n; Math.round goes up from the fraction 1/2 on
RoundTenths(total, n) ==
  IF n = 0 THEN NaN
  ELSE LET whole == (10 * total) \div n
           rest == (10 * total) % n
       IN 10 * (IF 2 * rest >= n THEN whole + 1 ELSE whole)

\* Array.prototype.indexOf, 0 standing for -1
IndexOf(s, x) ==
  IF \E i \in 1..Len(s) : s[i] = x
  THEN CHOOSE i \in 1..Len(s) : s[i] = x /\ \A j \in 1..(i - 1) : s[j] # x
  ELSE 0

\* s.splice(i, 1)
Splice(s, i) == SubSeq(s, 1, i - 1) \o SubSeq(s, i + 1, Len(s))

Range(s) == {s[i] : i \in 1..Len(s)}

\* ------------------------------------------------------------ the store
\* Review.find({ movie: m })
ReviewsOfMovie(m) == {r \in reviews : r.movie = m}
\* Review.find({ user: u })
ReviewsOfUser(u) == {r \in reviews : r.user = u}
\* Review.findById(id)
ReviewById(id) ==
  IF \E r \in reviews : r.id = id
  THEN CHOOSE r \in reviews : r.id = id
  ELSE Null
\* Movie.findById(m)
MovieById(m) == IF movies[m].exists THEN movies[m] ELSE Null

\* the validators of the Movie schema on the three cached aggregates
MovieValid(doc) ==
  /\ doc.averageRating # NaN
  /\ doc.averageRating >= 0
  /\ doc.averageRating <= MaxAverageRating
  /\ doc.totalRatings >= 0
  /\ doc.totalReviews >= 0

\* the collection without its unique index
UniqueIndexAllows_NoIndex(doc) == TRUE

\* the unique compound index { user: 1, movie: 1 }
UniqueIndexAllows(doc) ==
  \A r \in reviews : ~(r.user = doc.user /\ r.movie = doc.movie)

\* ------------------------------------------------------------ requests
IdleReq ==
  [pc |-> "idle", op |-> "none", actor |-> 0, movieId |-> 0,
   rating |-> Undefined, reactionType |-> "none", review |-> Null,
   modified |-> {}, movie |-> Null, user |-> Null, changed |-> {},
   saved |-> {}, outcome |-> "none", stats |-> Null]

\* the response is sent; the documents of the middleware are gone
Done(p, result) ==
  req' = [req EXCEPT ![p].pc = "done", ![p].outcome = result,
                     ![p].movie = Null, ![p].user = Null]

\* the response sent after the write of the document itself, which changed
\* the stored values of the collections in `written`
DoneAfterWrite(p, result, written) ==
  req' = [req EXCEPT ![p].pc = "done", ![p].outcome = result,
                     ![p].movie = Null, ![p].user = Null,
                     ![p].changed = @ \cup written]

\* a response sent by the first step of a request
Reject(p, operation, result) ==
  req' = [req EXCEPT ![p] = [IdleReq EXCEPT !.pc = "done", !.op = operation,
                                            !.outcome = result]]

\* the _id of a new document: an identifier that no stored review and no
\* document held by a request carries
FreshIds ==
  {i \in ReviewIds :
     /\ \A r \in reviews : r.id # i
     /\ \A q \in Procs : req[q].review = Null \/ req[q].review.id # i}

NewId == CHOOSE i \in FreshIds : \A j \in FreshIds : i <= j

\* ------------------------------------------------------------ Init
\* The service starts on a persistent store: the seeded catalog with no
\* reviews, or one that already holds a review of a movie, with the cached
\* aggregates in agreement with it.
SeedReviews ==
  {{}} \cup {{[id |-> 1, user |-> u, movie |-> m, rating |-> r,
               likes |-> <<>>, dislikes |-> <<>>]} :
               u \in Users, m \in Movies, r \in RatingInputs}

Init ==
  \E R \in SeedReviews :
    /\ reviews = R
    /\ movies = [m \in MovieIds |->
         LET S == {r \in R : r.movie = m} IN
         [exists |-> m \in Movies,
          averageRating |-> IF S = {} THEN 0 ELSE 100 * SumRatings(S),
          totalRatings |-> Cardinality(S),
          totalReviews |-> Cardinality(S)]]
    /\ users = [u \in Users |->
         LET S == {r \in R : r.user = u} IN
         [averageRating |-> IF S = {} THEN 0 ELSE 100 * SumRatings(S),
          totalReviews |-> Cardinality(S)]]
    /\ req = [p \in Procs |-> IdleReq]

\* ------------------------------------------------- POST /api/reviews
\* a request of user u with the validated body { movieId: m, rating: r }:
\* const movie = await Movie.findById(movieId); if (!movie) return 404
PostFindMovie(p, u, m, r) ==
  /\ req[p].pc = "idle"
  /\ IF MovieById(m) = Null
     THEN Reject(p, "create", "NotFound")
     ELSE req' = [req EXCEPT ![p] = [IdleReq EXCEPT !.pc = "post_findExisting",
                                       !.op = "create", !.actor = u,
                                       !.movieId = m, !.rating = r]]
  /\ UNCHANGED <<movies, users, reviews>>

\* the route without its lookup of an existing review
PostFindExisting_NoLookup(p) ==
  /\ req[p].pc = "post_findExisting"
  /\ req' = [req EXCEPT ![p].pc = "save_findMovie",
               ![p].review = [id |-> NewId, user |-> req[p].actor,
                              movie |-> req[p].movieId,
                              rating |-> req[p].rating,
                              likes |-> <<>>, dislikes |-> <<>>]]
  /\ UNCHANGED <<movies, users, reviews>>

\* const existingReview = await Review.findOne({ user, movie });
\* if (existingReview) return 400; const review = new Review({...});
\* review.save() enters the pre('save') middleware
PostFindExisting(p) ==
  /\ req[p].pc = "post_findExisting"
  /\ IF \E r \in reviews : r.user = req[p].actor /\ r.movie = req[p].movieId
     THEN Done(p, "DuplicateReview")
     ELSE req' = [req EXCEPT ![p].pc = "save_findMovie",
                    ![p].review = [id |-> NewId, user |-> req[p].actor,
                                   movie |-> req[p].movieId,
                                   rating |-> req[p].rating,
                                   likes |-> <<>>, dislikes |-> <<>>]]
  /\ UNCHANGED <<movies, users, reviews>>

\* ------------------------------------------- reviewSchema.pre('save')
\* the loaded document, before the middleware assigns to it
Loaded == [loaded |-> TRUE]

\* const movie = await Movie.findById(this.movie); if (movie) {...}
PreSaveFindMovie(p) ==
  /\ req[p].pc = "save_findMovie"
  /\ IF MovieById(req[p].review.movie) = Null
     THEN req' = [req EXCEPT ![p].pc = "save_findUser"]
     ELSE req' = [req EXCEPT ![p].pc = "save_findReviews", ![p].movie = Loaded]
  /\ UNCHANGED <<movies, users, reviews>>

\* the three assignments of the pre('save') middleware to the movie
SaveMovieStats(allReviews) ==
  [averageRating |-> RoundTenths(SumRatings(allReviews), Cardinality(allReviews)),
   totalRatings |-> Cardinality(allReviews),
   totalReviews |-> Cardinality(allReviews)]

\* const allReviews = await this.constructor.find({ movie: this.movie });
\* movie.averageRating = ...; movie.totalRatings = ...; movie.totalReviews = ...
PreSaveFindReviews(p) ==
  /\ req[p].pc = "save_findReviews"
  /\ req' = [req EXCEPT ![p].pc = "save_saveMovie",
               ![p].movie = SaveMovieStats(ReviewsOfMovie(req[p].review.movie))]
  /\ UNCHANGED <<movies, users, reviews>>

\* movie.save() made conditional on the review set it was computed from
MovieSave_Conditional(p, nextPc) ==
  LET m == req[p].review.movie
      doc == req[p].movie IN
  IF /\ MovieValid(doc) /\ movies[m].exists
     /\ doc.totalReviews = Cardinality({r \in reviews : r.movie = m})
  THEN /\ movies' = [movies EXCEPT ![m].averageRating = doc.averageRating,
                                   ![m].totalRatings = doc.totalRatings,
                                   ![m].totalReviews = doc.totalReviews]
       /\ req' = [req EXCEPT ![p].pc = nextPc, ![p].movie = Null,
                    ![p].changed = IF movies' # movies THEN @ \cup {"movie"} ELSE @,
                    ![p].saved = @ \cup {"movie"}]
  ELSE /\ Done(p, "ServerError")
       /\ UNCHANGED movies

\* a save that writes the average and adds one to the cached counters
MovieSave_Incremental(p, nextPc) ==
  LET m == req[p].review.movie
      doc == req[p].movie IN
  IF MovieValid(doc) /\ movies[m].exists
  THEN /\ movies' = [movies EXCEPT ![m].averageRating = doc.averageRating,
                                   ![m].totalRatings = @ + 1,
                                   ![m].totalReviews = @ + 1]
       /\ req' = [req EXCEPT ![p].pc = nextPc, ![p].movie = Null,
                    ![p].changed = IF movies' # movies THEN @ \cup {"movie"} ELSE @,
                    ![p].saved = @ \cup {"movie"}]
  ELSE /\ Done(p, "ServerError")
       /\ UNCHANGED movies

\* a rejected movie.save() whose error is dropped: the middleware goes on
MovieSave_ErrorDropped(p, nextPc) ==
  LET m == req[p].review.movie
      doc == req[p].movie IN
  IF MovieValid(doc) /\ movies[m].exists
  THEN /\ movies' = [movies EXCEPT ![m].averageRating = doc.averageRating,
                                   ![m].totalRatings = doc.totalRatings,
                                   ![m].totalReviews = doc.totalReviews]
       /\ req' = [req EXCEPT ![p].pc = nextPc, ![p].movie = Null,
                    ![p].changed = IF movies' # movies THEN @ \cup {"movie"} ELSE @,
                    ![p].saved = @ \cup {"movie"}]
  ELSE /\ req' = [req EXCEPT ![p].pc = nextPc, ![p].movie = Null]
       /\ UNCHANGED movies


\* movie.save(): validation of the assigned values, then the write of the
\* three assigned paths; a rejected save goes to catch -> next(error) and
\* the route answers 500
MovieSave(p, nextPc) ==
  LET m == req[p].review.movie
      doc == req[p].movie IN
  IF MovieValid(doc) /\ movies[m].exists
  THEN /\ movies' = [movies EXCEPT ![m].averageRating = doc.averageRating,
                                   ![m].totalRatings = doc.totalRatings,
                                   ![m].totalReviews = doc.totalReviews]
       /\ req' = [req EXCEPT ![p].pc = nextPc, ![p].movie = Null,
                    ![p].changed = IF movies' # movies THEN @ \cup {"movie"} ELSE @,
                    ![p].saved = @ \cup {"movie"}]
  ELSE /\ Done(p, "ServerError")
       /\ UNCHANGED movies

\* await movie.save()
PreSaveSaveMovie(p) ==
  /\ req[p].pc = "save_saveMovie"
  /\ MovieSave(p, "save_findUser")
  /\ UNCHANGED <<users, reviews>>

\* the lookup of the user held back while another request is in progress
PreSaveFindUser_AwaitsOthers(p) ==
  /\ req[p].pc = "save_findUser"
  /\ \A q \in Procs \ {p} : req[q].pc \in {"idle", "done"}
  /\ req' = [req EXCEPT ![p].pc = "save_findUserReviews", ![p].user = Loaded]
  /\ UNCHANGED <<movies, users, reviews>>

\* const user = await User.findById(this.user); if (user) {...}
PreSaveFindUser(p) ==
  /\ req[p].pc = "save_findUser"
  /\ req' = [req EXCEPT ![p].pc = "save_findUserReviews", ![p].user = Loaded]
  /\ UNCHANGED <<movies, users, reviews>>

\* the two assignments of the pre('save') middleware to the user
SaveUserStats(userReviews) ==
  [totalReviews |-> Cardinality(userReviews),
   averageRating |-> IF Cardinality(userReviews) > 0
                     THEN RoundTenths(SumRatings(userReviews), Cardinality(userReviews))
                     ELSE 0]

\* const userReviews = await this.constructor.find({ user: this.user });
PreSaveFindUserReviews(p) ==
  /\ req[p].pc = "save_findUserReviews"
  /\ req' = [req EXCEPT ![p].pc = "save_saveUser",
               ![p].user = SaveUserStats(ReviewsOfUser(req[p].review.user))]
  /\ UNCHANGED <<movies, users, reviews>>

\* user.save(): the write of the two assigned paths
UserSave(p, nextPc) ==
  /\ users' = [users EXCEPT
       ![req[p].review.user].totalReviews = req[p].user.totalReviews,
       ![req[p].review.user].averageRating = req[p].user.averageRating]
  /\ req' = [req EXCEPT ![p].pc = nextPc, ![p].user = Null,
               ![p].changed = IF users' # users THEN @ \cup {"user"} ELSE @,
               ![p].saved = @ \cup {"user"}]

\* user.save() not awaited: the middleware goes on while the save is
\* outstanding
PreSaveSaveUser_NotAwaited(p) ==
  /\ req[p].pc = "save_saveUser"
  /\ req' = [req EXCEPT ![p].pc = IF req[p].op = "create" THEN "insert" ELSE "update"]
  /\ UNCHANGED <<movies, users, reviews>>

\* await user.save(); next() - the document write follows the middleware
PreSaveSaveUser(p) ==
  /\ req[p].pc = "save_saveUser"
  /\ UserSave(p, IF req[p].op = "create" THEN "insert" ELSE "update")
  /\ UNCHANGED <<movies, reviews>>

\* res.status(201).json / res.json: the success response of the route
SuccessOutcome(op) ==
  CASE op = "create" -> "Created"
    [] op = "update" -> "Updated"
    [] op = "delete" -> "Deleted"
    [] op = "reaction" -> "Reacted"

\* review.save() of a new document: the insert, checked by the unique
\* index; then the success response
InsertReview(p) ==
  /\ req[p].pc = "insert"
  /\ IF UniqueIndexAllows(req[p].review)
     THEN /\ reviews' = reviews \cup {req[p].review}
          /\ DoneAfterWrite(p, SuccessOutcome(req[p].op), {"review"})
     ELSE /\ Done(p, "ServerError")
          /\ UNCHANGED reviews
  /\ UNCHANGED <<movies, users>>

\* the stored document with the modified paths of the in-memory one
ApplyModified(stored, doc, modified) ==
  [stored EXCEPT
     !.rating = IF "rating" \in modified THEN doc.rating ELSE @,
     !.likes = IF "likes" \in modified THEN doc.likes ELSE @,
     !.dislikes = IF "dislikes" \in modified THEN doc.dislikes ELSE @]

\* review.save() of a loaded document: the update of its modified paths;
\* nothing is sent when no path is modified, and the save is rejected when
\* the document is gone; then the success response
UpdateReviewDoc(p) ==
  /\ req[p].pc = "update"
  /\ LET stored == ReviewById(req[p].review.id) IN
     IF req[p].modified = {}
     THEN /\ Done(p, SuccessOutcome(req[p].op))
          /\ UNCHANGED reviews
     ELSE IF stored = Null
     THEN /\ Done(p, "ServerError")
          /\ UNCHANGED reviews
     ELSE /\ reviews' = (reviews \ {stored})
                          \cup {ApplyModified(stored, req[p].review, req[p].modified)}
          /\ DoneAfterWrite(p, SuccessOutcome(req[p].op),
                            IF reviews' # reviews THEN {"review"} ELSE {})
  /\ UNCHANGED <<movies, users>>

\* ------------------------------------------ PUT /api/reviews/:reviewId
\* request bodies: `keys` are the fields the body names; besides a rating a
\* body can name likes, which is no field of the update (reviewText and
\* spoiler are not part of the modelled review)
ReviewBodies ==
  {[keys |-> K, rating |-> IF "rating" \in K THEN r ELSE Undefined,
    likes |-> <<>>] :
     K \in SUBSET {"rating", "likes"}, r \in RatingInputs}

\* updateFields built from every field the body names
UpdateFields_WholeBody(body) == body

\* const updateFields = {}; if (req.body.rating !== undefined) ...: the
\* fields rating, reviewText and spoiler of the body, when present
UpdateFields(body) ==
  [body EXCEPT !.keys = @ \cap {"rating", "reviewText", "spoiler"}]

\* Object.assign(review, updateFields)
ObjectAssign(doc, fields) ==
  [doc EXCEPT !.rating = IF "rating" \in fields.keys THEN fields.rating ELSE @,
              !.likes = IF "likes" \in fields.keys THEN fields.likes ELSE @]

\* the paths on which the in-memory document differs from the loaded one
ModifiedPaths(loaded, doc) ==
  {f \in {"rating", "likes", "dislikes"} : loaded[f] # doc[f]}

\* the route without its check of the acting user against the owner
PutFindReview_NoOwnerCheck(p, u, id, body) ==
  /\ req[p].pc = "idle"
  /\ LET found == ReviewById(id) IN
     IF found = Null THEN Reject(p, "update", "NotFound")
     ELSE LET doc == ObjectAssign(found, UpdateFields(body)) IN
          req' = [req EXCEPT ![p] = [IdleReq EXCEPT !.pc = "save_findMovie",
                    !.op = "update", !.review = doc,
                    !.modified = ModifiedPaths(found, doc)]]
  /\ UNCHANGED <<movies, users, reviews>>

\* a request of user u for review id with a body:
\* const review = await Review.findById(reviewId); 404 when absent, 403
\* when the acting user is not the owner; Object.assign; review.save()
PutFindReview(p, u, id, body) ==
  /\ req[p].pc = "idle"
  /\ LET found == ReviewById(id) IN
     IF found = Null THEN Reject(p, "update", "NotFound")
     ELSE IF found.user # u THEN Reject(p, "update", "NotAuthorized")
     ELSE LET doc == ObjectAssign(found, UpdateFields(body)) IN
          req' = [req EXCEPT ![p] = [IdleReq EXCEPT !.pc = "save_findMovie",
                    !.op = "update", !.review = doc,
                    !.modified = ModifiedPaths(found, doc)]]
  /\ UNCHANGED <<movies, users, reviews>>

\* --------------------------------------- DELETE /api/reviews/:reviewId
\* const review = await Review.findById(reviewId); 404, 403;
\* review.remove() enters the pre('remove') middleware
DeleteFindReview(p, u, id) ==
  /\ req[p].pc = "idle"
  /\ LET found == ReviewById(id) IN
     IF found = Null THEN Reject(p, "delete", "NotFound")
     ELSE IF found.user # u THEN Reject(p, "delete", "NotAuthorized")
     ELSE req' = [req EXCEPT ![p] = [IdleReq EXCEPT !.pc = "remove_findMovie",
                    !.op = "delete", !.review = found]]
  /\ UNCHANGED <<movies, users, reviews>>

\* ----------------------------------------- reviewSchema.pre('remove')
\* const movie = await Movie.findById(this.movie); if (movie) {...}
PreRemoveFindMovie(p) ==
  /\ req[p].pc = "remove_findMovie"
  /\ IF MovieById(req[p].review.movie) = Null
     THEN req' = [req EXCEPT ![p].pc = "remove_findUser"]
     ELSE req' = [req EXCEPT ![p].pc = "remove_findReviews", ![p].movie = Loaded]
  /\ UNCHANGED <<movies, users, reviews>>

\* the assignments of the pre('remove') middleware to the movie
RemoveMovieStats(remainingReviews) ==
  IF Cardinality(remainingReviews) > 0
  THEN [averageRating |-> RoundTenths(SumRatings(remainingReviews),
                                      Cardinality(remainingReviews)),
        totalRatings |-> Cardinality(remainingReviews),
        totalReviews |-> Cardinality(remainingReviews)]
  ELSE [averageRating |-> 0, totalRatings |-> 0, totalReviews |-> 0]

\* const remainingReviews = await this.constructor.find({ movie: this.movie });
PreRemoveFindReviews(p) ==
  /\ req[p].pc = "remove_findReviews"
  /\ req' = [req EXCEPT ![p].pc = "remove_saveMovie",
               ![p].movie = RemoveMovieStats(ReviewsOfMovie(req[p].review.movie))]
  /\ UNCHANGED <<movies, users, reviews>>

\* await movie.save()
PreRemoveSaveMovie(p) ==
  /\ req[p].pc = "remove_saveMovie"
  /\ MovieSave(p, "remove_findUser")
  /\ UNCHANGED <<users, reviews>>

\* const user = await User.findById(this.user); if (user) {...}
PreRemoveFindUser(p) ==
  /\ req[p].pc = "remove_findUser"
  /\ req' = [req EXCEPT ![p].pc = "remove_findUserReviews", ![p].user = Loaded]
  /\ UNCHANGED <<movies, users, reviews>>

\* the assignments of the pre('remove') middleware to the user
RemoveUserStats(userReviews) ==
  [totalReviews |-> Cardinality(userReviews),
   averageRating |-> IF Cardinality(userReviews) > 0
                     THEN RoundTenths(SumRatings(userReviews), Cardinality(userReviews))
                     ELSE 0]

\* const userReviews = await this.constructor.find({ user: this.user });
PreRemoveFindUserReviews(p) ==
  /\ req[p].pc = "remove_findUserReviews"
  /\ req' = [req EXCEPT ![p].pc = "remove_saveUser",
               ![p].user = RemoveUserStats(ReviewsOfUser(req[p].review.user))]
  /\ UNCHANGED <<movies, users, reviews>>

\* await user.save(); next() - the removal follows the middleware
PreRemoveSaveUser(p) ==
  /\ req[p].pc = "remove_saveUser"
  /\ UserSave(p, "remove")
  /\ UNCHANGED <<movies, reviews>>

\* review.remove(): the delete of the document by its _id; then the
\* success response
RemoveReview(p) ==
  /\ req[p].pc = "remove"
  /\ reviews' = {r \in reviews : r.id # req[p].review.id}
  /\ DoneAfterWrite(p, SuccessOutcome(req[p].op),
                    IF reviews' # reviews THEN {"review"} ELSE {})
  /\ UNCHANGED <<movies, users>>

\* ------------------------------- POST /api/reviews/:reviewId/reaction
\* toggleReaction leaving the other array as it is
ToggleReaction_NoRemoval(doc, userId, reactionType) ==
  LET likeIndex == IndexOf(doc.likes, userId)
      dislikeIndex == IndexOf(doc.dislikes, userId) IN
  IF reactionType = "like"
  THEN IF likeIndex > 0
       THEN [doc EXCEPT !.likes = Splice(doc.likes, likeIndex)]
       ELSE [doc EXCEPT !.likes = Append(doc.likes, userId)]
  ELSE IF dislikeIndex > 0
       THEN [doc EXCEPT !.dislikes = Splice(doc.dislikes, dislikeIndex)]
       ELSE [doc EXCEPT !.dislikes = Append(doc.dislikes, userId)]

\* toggleReaction that leaves a reaction already given in place
ToggleReaction_NoToggleOff(doc, userId, reactionType) ==
  LET likeIndex == IndexOf(doc.likes, userId)
      dislikeIndex == IndexOf(doc.dislikes, userId) IN
  IF reactionType = "like"
  THEN IF likeIndex > 0
       THEN doc
       ELSE [doc EXCEPT !.likes = Append(doc.likes, userId),
                        !.dislikes = IF dislikeIndex > 0
                                     THEN Splice(doc.dislikes, dislikeIndex)
                                     ELSE doc.dislikes]
  ELSE IF reactionType = "dislike"
  THEN IF dislikeIndex > 0
       THEN doc
       ELSE [doc EXCEPT !.dislikes = Append(doc.dislikes, userId),
                        !.likes = IF likeIndex > 0
                                  THEN Splice(doc.likes, likeIndex)
                                  ELSE doc.likes]
  ELSE doc


\* reviewSchema.methods.toggleReaction, up to its this.save()
ToggleReaction(doc, userId, reactionType) ==
  LET likeIndex == IndexOf(doc.likes, userId)
      dislikeIndex == IndexOf(doc.dislikes, userId) IN
  IF reactionType = "like"
  THEN IF likeIndex > 0
       THEN [doc EXCEPT !.likes = Splice(doc.likes, likeIndex)]
       ELSE [doc EXCEPT !.likes = Append(doc.likes, userId),
                        !.dislikes = IF dislikeIndex > 0
                                     THEN Splice(doc.dislikes, dislikeIndex)
                                     ELSE doc.dislikes]
  ELSE IF reactionType = "dislike"
  THEN IF dislikeIndex > 0
       THEN [doc EXCEPT !.dislikes = Splice(doc.dislikes, dislikeIndex)]
       ELSE [doc EXCEPT !.dislikes = Append(doc.dislikes, userId),
                        !.likes = IF likeIndex > 0
                                  THEN Splice(doc.likes, likeIndex)
                                  ELSE doc.likes]
  ELSE doc

\* the route without its check of the acting user against the author
ReactionFindReview_NoSelfCheck(p, u, id, t) ==
  /\ req[p].pc = "idle"
  /\ LET found == ReviewById(id) IN
     IF found = Null THEN Reject(p, "reaction", "NotFound")
     ELSE LET doc == ToggleReaction(found, u, t) IN
          req' = [req EXCEPT ![p] = [IdleReq EXCEPT !.pc = "save_findMovie",
                    !.op = "reaction", !.actor = u, !.reactionType = t,
                    !.review = doc,
                    !.modified = ModifiedPaths(found, doc)]]
  /\ UNCHANGED <<movies, users, reviews>>

\* a request of user u for review id with reaction type t:
\* const review = await Review.findById(reviewId); 404 when absent, 400
\* when the acting user is the author; review.toggleReaction(...) changes
\* the in-memory sets and its this.save() enters the pre('save') middleware
ReactionFindReview(p, u, id, t) ==
  /\ req[p].pc = "idle"
  /\ LET found == ReviewById(id) IN
     IF found = Null THEN Reject(p, "reaction", "NotFound")
     ELSE IF found.user = u THEN Reject(p, "reaction", "SelfReaction")
     ELSE LET doc == ToggleReaction(found, u, t) IN
          req' = [req EXCEPT ![p] = [IdleReq EXCEPT !.pc = "save_findMovie",
                    !.op = "reaction", !.actor = u, !.reactionType = t,
                    !.review = doc,
                    !.modified = ModifiedPaths(found, doc)]]
  /\ UNCHANGED <<movies, users, reviews>>

\* ------------------------------------------------------ store failures
\* the steps of a request that write to the store
WriteSteps ==
  {"save_saveMovie", "save_saveUser", "insert", "update",
   "remove_saveMovie", "remove_saveUser", "remove"}

\* a write that is sent is rejected by the store; the error reaches the
\* route's catch, which answers 500
StorageFailure(p) ==
  /\ req[p].pc \in WriteSteps
  /\ ~(req[p].pc = "update" /\ req[p].modified = {})
  /\ Done(p, "ServerError")
  /\ UNCHANGED <<movies, users, reviews>>

\* ------------------------------------------------------ specification
\* the pre('save') middleware and the document write that follows it
SaveSteps(p) ==
  \/ PreSaveFindMovie(p) \/ PreSaveFindReviews(p) \/ PreSaveSaveMovie(p)
  \/ PreSaveFindUser(p) \/ PreSaveFindUserReviews(p) \/ PreSaveSaveUser(p)

\* the pre('remove') middleware and the removal that follows it
RemoveSteps(p) ==
  \/ PreRemoveFindMovie(p) \/ PreRemoveFindReviews(p) \/ PreRemoveSaveMovie(p)
  \/ PreRemoveFindUser(p) \/ PreRemoveFindUserReviews(p) \/ PreRemoveSaveUser(p)
  \/ RemoveReview(p)

Create(p) ==
  \E u \in Users, m \in MovieIds, r \in RatingInputs : PostFindMovie(p, u, m, r)

Update(p) ==
  \E u \in Users, id \in ReviewIds, body \in ReviewBodies :
    PutFindReview(p, u, id, body)

Delete(p) == \E u \in Users, id \in ReviewIds : DeleteFindReview(p, u, id)

Reaction(p) ==
  \E u \in Users, id \in ReviewIds, t \in ReactionTypes :
    ReactionFindReview(p, u, id, t)

\* a request arrives and runs to its first await
Start(p) == Create(p) \/ Update(p) \/ Delete(p) \/ Reaction(p)

\* the later steps of a request, up to its response
Serve(p) ==
  \/ PostFindExisting(p) \/ SaveSteps(p) \/ InsertReview(p) \/ UpdateReviewDoc(p)
  \/ RemoveSteps(p) \/ StorageFailure(p)

\* NumProcs requests, overlapping in time and interleaved at every await
Next == \E p \in Procs : Start(p) \/ Serve(p)

Spec == Init /\ [][Next]_vars

\* no other request is between its arrival and its response
NoOtherInProgress(p) == \A q \in Procs \ {p} : req[q].pc \in {"idle", "done"}

\* the same requests handled one after the other
NextSequential == \E p \in Procs : (NoOtherInProgress(p) /\ Start(p)) \/ Serve(p)

SpecSequential == Init /\ [][NextSequential]_vars

\* ------------------------------------------- reactions on a stored review
RECURSIVE SetToSeq(_)
\* the members of S in ascending order
SetToSeq(S) ==
  IF S = {} THEN <<>>
  ELSE LET x == CHOOSE y \in S : \A z \in S : y <= z
       IN <<x>> \o SetToSeq(S \ {x})

\* The store holds one review whose likes and dislikes earlier reaction
\* requests have filled with users other than its author; overlapping
\* requests can leave a user in both arrays.
InitReaction ==
  \E u \in Users, m \in Movies, r \in RatingInputs :
    \E L \in SUBSET (Users \ {u}), D \in SUBSET (Users \ {u}) :
      /\ reviews = {[id |-> 1, user |-> u, movie |-> m, rating |-> r,
                     likes |-> SetToSeq(L), dislikes |-> SetToSeq(D)]}
      /\ movies = [x \in MovieIds |->
           [exists |-> x \in Movies,
            averageRating |-> IF x = m THEN 100 * r ELSE 0,
            totalRatings |-> IF x = m THEN 1 ELSE 0,
            totalReviews |-> IF x = m THEN 1 ELSE 0]]
      /\ users = [x \in Users |->
           [averageRating |-> IF x = u THEN 100 * r ELSE 0,
            totalReviews |-> IF x = u THEN 1 ELSE 0]]
      /\ req = [p \in Procs |-> IdleReq]

\* reaction requests handled one after the other
NextReaction ==
  \E p \in Procs :
    \/ NoOtherInProgress(p) /\ Reaction(p)
    \/ SaveSteps(p) \/ UpdateReviewDoc(p) \/ StorageFailure(p)

SpecReaction == InitReaction /\ [][NextReaction]_vars


\* ------------------------------------------- GET /api/users/:userId/stats
\* user ids a request can name: the users and one id that names no user
UserIds == Users \cup {NumUsers + 1}

RECURSIVE SumLikes(_)
\* { $sum: { $size: '$likes' } } over the matched reviews
SumLikes(S) ==
  IF S = {} THEN 0
  ELSE LET r == CHOOSE x \in S : TRUE IN Len(r.likes) + SumLikes(S \ {r})

\* the $group stage of reviewStats and the stats object built from it:
\* both totals are accumulated from '$likes'; the later totalReviews and
\* averageRating keys, read from the user document, are the ones that remain
StatsOf(u) ==
  LET matched == ReviewsOfUser(u) IN
  [totalReviews |-> users[u].totalReviews,
   averageRating |-> users[u].averageRating,
   totalLikes |-> SumLikes(matched),
   totalDislikes |-> SumLikes(matched)]

\* the handler reads only; handled with no other request in progress it is
\* one step from arrival to res.json({ stats })
GetUserStats(p, u) ==
  /\ req[p].pc = "idle"
  /\ IF u \notin Users
     THEN Reject(p, "stats", "NotFound")
     ELSE req' = [req EXCEPT ![p] =
            [IdleReq EXCEPT !.pc = "done", !.op = "stats", !.actor = u,
                            !.outcome = "Stats", !.stats = StatsOf(u)]]
  /\ UNCHANGED <<movies, users, reviews>>

Stats(p) == \E u \in UserIds : GetUserStats(p, u)

\* reaction requests and statistics requests handled one after the other
NextStats ==
  \E p \in Procs :
    \/ NoOtherInProgress(p) /\ Reaction(p)
    \/ NoOtherInProgress(p) /\ Stats(p)
    \/ SaveSteps(p) \/ UpdateReviewDoc(p) \/ StorageFailure(p)

SpecStats == InitReaction /\ [][NextStats]_vars


\* ------------------------------------------- PUT /api/movies/:id (admin)
\* values of the aggregate fields a request body can carry (hundredths for
\* averageRating); Undefined for a field the body does not name
BodyAverageRatings == {Undefined, 455, 600}
BodyTotalRatings == {Undefined, 7}
BodyTotalReviews == {Undefined, 7}

\* req.body as far as the cached aggregates go: the route's validation
\* chain names the descriptive fields only and lets every other field of
\* the body through
MovieBodies ==
  [averageRating : BodyAverageRatings, totalRatings : BodyTotalRatings,
   totalReviews : BodyTotalReviews]

\* the $set of the fields the body names
ApplyBody(doc, body) ==
  [doc EXCEPT
     !.averageRating = IF body.averageRating = Undefined THEN @ ELSE body.averageRating,
     !.totalRatings = IF body.totalRatings = Undefined THEN @ ELSE body.totalRatings,
     !.totalReviews = IF body.totalReviews = Undefined THEN @ ELSE body.totalReviews]

\* const movie = await Movie.findByIdAndUpdate(req.params.id, req.body,
\* { new: true, runValidators: true }); 404 when absent; a value the schema
\* validators reject goes to catch, which answers 500
AdminUpdateMovie(p, m, body) ==
  /\ req[p].pc = "idle"
  /\ IF MovieById(m) = Null
     THEN /\ Reject(p, "adminUpdate", "NotFound")
          /\ UNCHANGED movies
     ELSE IF ~MovieValid(ApplyBody(movies[m], body))
     THEN /\ Reject(p, "adminUpdate", "ServerError")
          /\ UNCHANGED movies
     ELSE /\ movies' = [movies EXCEPT ![m] = ApplyBody(@, body)]
          /\ req' = [req EXCEPT ![p] =
               [IdleReq EXCEPT !.pc = "done", !.op = "adminUpdate",
                               !.movieId = m, !.outcome = "MovieUpdated",
                               !.changed = IF movies' # movies THEN {"movie"} ELSE {}]]
  /\ UNCHANGED <<users, reviews>>

AdminUpdate(p) == \E m \in MovieIds, body \in MovieBodies : AdminUpdateMovie(p, m, body)

\* ------------------------------------------- POST /api/movies (admin)
\* the _id of a new movie: an identifier that names no movie and that no
\* stored review and no request refers to
FreshMovieIds ==
  {m \in MovieIds :
     /\ ~movies[m].exists
     /\ \A r \in reviews : r.movie # m
     /\ \A q \in Procs : req[q].movieId # m
                         /\ (req[q].review = Null \/ req[q].review.movie # m)}

\* new Movie(movieData): the schema defaults of the three cached aggregates
\* under the fields of the body
NewMovie(body) ==
  ApplyBody([exists |-> TRUE, averageRating |-> 0, totalRatings |-> 0,
             totalReviews |-> 0], body)

\* const movie = new Movie({ ...req.body, ... }); validateSync() answers 400
\* on a value the schema rejects; await movie.save(); 201
AdminCreateMovie(p, body) ==
  /\ req[p].pc = "idle"
  /\ FreshMovieIds # {}
  /\ IF ~MovieValid(NewMovie(body))
     THEN /\ Reject(p, "adminCreate", "ValidationFailed")
          /\ UNCHANGED movies
     ELSE LET m == CHOOSE x \in FreshMovieIds : \A y \in FreshMovieIds : x <= y IN
          /\ movies' = [movies EXCEPT ![m] = NewMovie(body)]
          /\ req' = [req EXCEPT ![p] =
               [IdleReq EXCEPT !.pc = "done", !.op = "adminCreate",
                               !.movieId = m, !.outcome = "MovieCreated",
                               !.changed = {"movie"}]]
  /\ UNCHANGED <<users, reviews>>

AdminCreate(p) == \E body \in MovieBodies : AdminCreateMovie(p, body)

\* ------------------------------------------- DELETE /api/movies/:id (admin)
\* const movie = await Movie.findByIdAndDelete(req.params.id); 404 when
\* absent; the reviews of the movie are not touched
AdminDeleteMovie(p, m) ==
  /\ req[p].pc = "idle"
  /\ IF MovieById(m) = Null
     THEN /\ Reject(p, "adminDelete", "NotFound")
          /\ UNCHANGED movies
     ELSE /\ movies' = [movies EXCEPT ![m] =
               [exists |-> FALSE, averageRating |-> 0, totalRatings |-> 0,
                totalReviews |-> 0]]
          /\ req' = [req EXCEPT ![p] =
               [IdleReq EXCEPT !.pc = "done", !.op = "adminDelete",
                               !.movieId = m, !.outcome = "MovieDeleted",
                               !.changed = {"movie"}]]
  /\ UNCHANGED <<users, reviews>>

AdminDelete(p) == \E m \in MovieIds : AdminDeleteMovie(p, m)


\* review requests and admin requests on the catalog, handled one after the
\* other
NextCatalog ==
  \E p \in Procs :
    \/ NoOtherInProgress(p) /\ Start(p)
    \/ NoOtherInProgress(p) /\ AdminUpdate(p)
    \/ NoOtherInProgress(p) /\ AdminCreate(p)
    \/ NoOtherInProgress(p) /\ AdminDelete(p)
    \/ Serve(p)

SpecCatalog == Init /\ [][NextCatalog]_vars


\* every call on the document store returns or fails: a request that is
\* between two awaits eventually takes its next step
Fairness == \A p \in Procs : WF_vars(Serve(p))

SpecFair == Init /\ [][Next]_vars /\ Fairness


\* ------------------------------------------- recomputation over a review set
\* the largest review set of a movie or of a user considered
MaxSetSize == 4
\* ratings a stored review can carry: rating { min: 1, max: 5 }
Ratings == 1..5

\* the ratings of k reviews, in ascending order of rating
RatingLists(k) ==
  {f \in [1..k -> Ratings] : \A i \in 1..(k - 1) : f[i] <= f[i + 1]}

\* k reviews of movie 1 by k users, and k reviews of user 1 of k movies
ReviewSets ==
  UNION {
    {{[id |-> i, user |-> i, movie |-> 1, rating |-> f[i],
       likes |-> <<>>, dislikes |-> <<>>] : i \in 1..k} : f \in RatingLists(k)}
    \cup
    {{[id |-> i, user |-> 1, movie |-> i, rating |-> f[i],
       likes |-> <<>>, dislikes |-> <<>>] : i \in 1..k} : f \in RatingLists(k)}
    : k \in 1..MaxSetSize}

\* the awaits of the middleware that read a review set
RecomputeSteps ==
  {"save_findReviews", "save_findUserReviews",
   "remove_findReviews", "remove_findUserReviews"}

\* A request on a stored review r has entered the middleware and is about to
\* read the review set of r's movie or of r's author.
InitRecompute ==
  \E R \in ReviewSets, p \in Procs, step \in RecomputeSteps :
    \E r \in R :
      /\ reviews = R
      /\ movies = [m \in 1..MaxSetSize |->
           [exists |-> TRUE, averageRating |-> 0, totalRatings |-> 0,
            totalReviews |-> 0]]
      /\ users = [u \in 1..MaxSetSize |-> [averageRating |-> 0, totalReviews |-> 0]]
      /\ req = [q \in Procs |->
           IF q # p THEN IdleReq
           ELSE [IdleReq EXCEPT
                   !.pc = step,
                   !.op = IF step \in {"save_findReviews", "save_findUserReviews"}
                          THEN "update" ELSE "delete",
                   !.review = r,
                   !.movie = IF step \in {"save_findReviews", "remove_findReviews"}
                             THEN Loaded ELSE Null,
                   !.user = IF step \in {"save_findUserReviews", "remove_findUserReviews"}
                            THEN Loaded ELSE Null]]

\* the read of the review set and the assignments computed from it
NextRecompute ==
  \E p \in Procs :
    \/ PreSaveFindReviews(p) \/ PreSaveFindUserReviews(p)
    \/ PreRemoveFindReviews(p) \/ PreRemoveFindUserReviews(p)

SpecRecompute == InitRecompute /\ [][NextRecompute]_vars


\* ------------------------------------------------------------ properties
\* no request is in progress
Quiescent == \A p \in Procs : req[p].pc \in {"idle", "done"}

\* the mean of the ratings of S to one decimal, halves up, in hundredths; 0
\* for the empty set
ExpectedAverage(S) ==
  IF S = {} THEN 0
  ELSE LET n == Cardinality(S)
           tenTimes == 10 * SumRatings(S)
       IN 10 * (IF 2 * (tenTimes % n) >= n THEN (tenTimes \div n) + 1
                ELSE tenTimes \div n)

MovieAggregatesOf(m, S) ==
  /\ movies[m].totalReviews = Cardinality(S)
  /\ movies[m].averageRating = ExpectedAverage(S)

UserAggregatesOf(u, S) ==
  /\ users[u].totalReviews = Cardinality(S)
  /\ users[u].averageRating = ExpectedAverage(S)

\* C1: whenever no request is in progress, every movie's totalReviews is the
\* number of stored reviews of the movie and its averageRating is their mean
\* to one decimal, both 0 when it has none.
C1_MovieAggregatesMatchReviews ==
  Quiescent => \A m \in Movies : MovieAggregatesOf(m, ReviewsOfMovie(m))

\* C2: whenever no request is in progress, every user's totalReviews is the
\* number of stored reviews the user wrote and the user's averageRating is
\* their mean to one decimal, 0 when there are none.
C2_UserAggregatesMatchReviews ==
  Quiescent => \A u \in Users : UserAggregatesOf(u, ReviewsOfUser(u))

\* C3: when a create-review request has succeeded with no other request
\* interleaved, the new review is stored and the aggregates of its movie and
\* of its author are those of review sets that include it.
C3_CreateCountsNewReview ==
  \A p \in Procs :
    (req[p].pc = "done" /\ req[p].outcome = "Created") =>
      /\ req[p].review \in reviews
      /\ MovieAggregatesOf(req[p].review.movie, ReviewsOfMovie(req[p].review.movie))
      /\ UserAggregatesOf(req[p].review.user, ReviewsOfUser(req[p].review.user))

\* C4: when a delete-review request has succeeded with no other request
\* interleaved, the aggregates of the review's movie and author are those of
\* the remaining reviews, the deleted one excluded, and a movie left without
\* reviews has averageRating, totalRatings and totalReviews 0.
C4_DeleteDropsReview ==
  \A p \in Procs :
    (req[p].pc = "done" /\ req[p].outcome = "Deleted") =>
      LET m == req[p].review.movie
          u == req[p].review.user IN
      /\ req[p].review \notin reviews
      /\ MovieAggregatesOf(m, ReviewsOfMovie(m))
      /\ movies[m].totalRatings = Cardinality(ReviewsOfMovie(m))
      /\ UserAggregatesOf(u, ReviewsOfUser(u))

\* C5: when the owner's update-review request that changes the rating has
\* succeeded with no other request interleaved, the movie's averageRating is
\* the mean to one decimal of the movie's reviews with the new rating.
C5_UpdateUsesNewRating ==
  \A p \in Procs :
    (req[p].pc = "done" /\ req[p].outcome = "Updated" /\ "rating" \in req[p].modified) =>
      /\ ReviewById(req[p].review.id).rating = req[p].review.rating
      /\ movies[req[p].review.movie].averageRating =
           ExpectedAverage(ReviewsOfMovie(req[p].review.movie))

\* two requests of different users that created reviews of the same movie
\* while no further request was received
BothCreated(p, q) ==
  /\ p # q
  /\ req[p].pc = "done" /\ req[p].outcome = "Created"
  /\ req[q].pc = "done" /\ req[q].outcome = "Created"
  /\ req[p].review.movie = req[q].review.movie
  /\ req[p].review.user # req[q].review.user
  /\ \A o \in Procs \ {p, q} : req[o].pc = "idle"

C7_DuplicateCreateRejected ==
  [][\A p \in Procs :
       (/\ req[p].pc = "post_findExisting"
        /\ \E r \in reviews : r.user = req[p].actor /\ r.movie = req[p].movieId
        /\ req'[p] # req[p]) =>
         (/\ req'[p].pc = "done"
          /\ req'[p].outcome = "DuplicateReview"
          /\ reviews' = reviews /\ movies' = movies /\ users' = users)]_vars

\* a create-review request was answered DuplicateReview
C7_DuplicateAnswered ==
  \E p \in Procs :
    /\ req[p].pc = "done" /\ req[p].op = "create"
    /\ req[p].outcome = "DuplicateReview"
    /\ \E r \in reviews : r.user = req[p].actor /\ r.movie = req[p].movieId

\* C8: in every state, under every interleaving of concurrent create-review
\* requests, the store holds at most one review per (user, movie).
C8_OneReviewPerUserAndMovie ==
  \A r1, r2 \in reviews :
    (r1.user = r2.user /\ r1.movie = r2.movie) => r1 = r2

\* a create-review request is about to insert its review although a
\* concurrent request of the same user for the same movie has inserted one
C8_SecondInsertPending ==
  \E p \in Procs :
    /\ req[p].pc = "insert"
    /\ \E r \in reviews : r.user = req[p].review.user /\ r.movie = req[p].review.movie

\* the reviews without their reaction sets
WithoutReactions(S) ==
  {[id |-> r.id, user |-> r.user, movie |-> r.movie, rating |-> r.rating] : r \in S}

\* C9: a toggle-reaction request leaves the aggregates of every movie and
\* every user unchanged; it changes only reaction sets of reviews.
C9_ReactionLeavesAggregates ==
  [][\A p \in Procs :
       (req[p].op = "reaction" /\ req'[p] # req[p]) =>
         (/\ movies' = movies
          /\ users' = users
          /\ WithoutReactions(reviews') = WithoutReactions(reviews))]_vars

\* C10: in every state, under every interleaving of toggle-reaction
\* requests, no user is in both the likes and the dislikes of a review.
C10_LikesDislikesDisjoint ==
  \A r \in reviews : Range(r.likes) \cap Range(r.dislikes) = {}


\* the review with identifier id in the collection S
ReviewIn(S, id) == CHOOSE r \in S : r.id = id

\* the members of the array of reactions of type t, and of the other array
ReactionSet(doc, t) == Range(IF t = "like" THEN doc.likes ELSE doc.dislikes)
OtherReactionSet(doc, t) == Range(IF t = "like" THEN doc.dislikes ELSE doc.likes)

\* what a toggle of type t by user u makes of the two sets
ToggleYields(before, after, u, t) ==
  IF u \in ReactionSet(before, t)
  THEN /\ ReactionSet(after, t) = ReactionSet(before, t) \ {u}
       /\ OtherReactionSet(after, t) = OtherReactionSet(before, t)
  ELSE /\ ReactionSet(after, t) = ReactionSet(before, t) \cup {u}
       /\ OtherReactionSet(after, t) = OtherReactionSet(before, t) \ {u}

\* C11: a completed toggle of type t by user u leaves the stored review with
\* u removed from set t and the other set unchanged when u was in t, and
\* otherwise with u added to t and removed from the other set; the
\* memberships of all other users are unchanged.
C11_ToggleReactionSemantics ==
  [][\A p \in Procs :
       (/\ req[p].op = "reaction" /\ req[p].pc = "update"
        /\ req'[p].outcome = "Reacted") =>
         ToggleYields(ReviewIn(reviews, req[p].review.id),
                      ReviewIn(reviews', req[p].review.id),
                      req[p].actor, req[p].reactionType)]_vars

\* a toggle has moved its user from one set to the other while another
\* user's reaction is stored
C11_UserSwitchedSets ==
  \E p \in Procs :
    /\ req[p].pc = "done" /\ req[p].outcome = "Reacted"
    /\ req[p].modified = {"likes", "dislikes"}
    /\ \E r \in reviews :
         /\ r.id = req[p].review.id
         /\ (Range(r.likes) \cup Range(r.dislikes)) \ {req[p].actor} # {}


\* C12: a toggle-reaction request of the author of the target review is
\* answered SelfReaction, and the likes and dislikes of the review are the
\* same after the request as before it.
C12_SelfReactionRejected ==
  [][\A p \in Procs, u \in Users, id \in ReviewIds, t \in ReactionTypes :
       (/\ ReactionFindReview(p, u, id, t)
        /\ ReviewById(id) # Null
        /\ ReviewById(id).user = u) =>
         (/\ req'[p].pc = "done"
          /\ req'[p].outcome = "SelfReaction"
          /\ reviews' = reviews)]_vars

\* the author's reaction to a review that carries reactions was answered
\* SelfReaction
C12_SelfReactionAnswered ==
  \E p \in Procs :
    /\ req[p].pc = "done" /\ req[p].op = "reaction"
    /\ req[p].outcome = "SelfReaction"
    /\ \E r \in reviews : r.likes # <<>> /\ r.dislikes # <<>>


\* C13: an update-review or delete-review request of a user who is not the
\* owner of the review is answered NotAuthorized, and the stored reviews are
\* the same after the request as before it.
C13_NonOwnerRejected ==
  [][\A p \in Procs, u \in Users, id \in ReviewIds :
       (/\ \/ \E body \in ReviewBodies : PutFindReview(p, u, id, body)
           \/ DeleteFindReview(p, u, id)
        /\ ReviewById(id) # Null
        /\ ReviewById(id).user # u) =>
         (/\ req'[p].pc = "done"
          /\ req'[p].outcome = "NotAuthorized"
          /\ reviews' = reviews)]_vars

\* an update and a delete of a stored review were both answered
\* NotAuthorized
C13_NotAuthorizedAnswered ==
  \E p, q \in Procs :
    /\ req[p].pc = "done" /\ req[p].op = "update"
    /\ req[p].outcome = "NotAuthorized"
    /\ req[q].pc = "done" /\ req[q].op = "delete"
    /\ req[q].outcome = "NotAuthorized"
    /\ reviews # {}


\* C14: a review mutation request that fails as a duplicate (answered
\* DuplicateReview, or its insert rejected by the unique index), as not
\* found or as not authorized has written no movie or user aggregate, in
\* every interleaving of requests.
C14_FailedMutationWritesNoAggregate ==
  [][\A p \in Procs :
       (/\ req[p].pc # "done" /\ req'[p].pc = "done"
        /\ \/ req'[p].outcome \in {"DuplicateReview", "NotFound", "NotAuthorized"}
           \/ req[p].pc = "insert" /\ ~UniqueIndexAllows(req[p].review)) =>
         (/\ req'[p].changed \cap {"movie", "user"} = {}
          /\ movies' = movies /\ users' = users)]_vars


\* C15: no step of an update-review request changes the totalReviews or the
\* averageRating of a user: the request writes movie aggregates only.
C15_UpdateLeavesUserAggregates ==
  [][\A p \in Procs :
       (req[p].op = "update" /\ req'[p] # req[p]) => users' = users]_vars


\* the outcomes of a request that did not succeed
FailureOutcomes == {"NotFound", "NotAuthorized", "DuplicateReview", "ServerError"}

\* C16: with requests handled one at a time, a create-review, update-review
\* or delete-review request that has ended in failure, a storage failure at
\* any of its writes included, has changed no stored review and no movie or
\* user aggregate.
C16_FailedRequestChangesNothing ==
  \A p \in Procs :
    (/\ req[p].pc = "done"
     /\ req[p].op \in {"create", "update", "delete"}
     /\ req[p].outcome \in FailureOutcomes) =>
      req[p].changed = {}


\* C17: in every reachable state, every movie's totalRatings equals its
\* totalReviews.
C17_TotalRatingsEqualsTotalReviews ==
  \A m \in Movies : movies[m].totalRatings = movies[m].totalReviews

\* C18: in every reachable state, every movie's stored averageRating is a
\* defined number from 0 to 5 with at most one decimal place.
C18_AverageRatingWellFormed ==
  \A m \in Movies :
    /\ movies[m].averageRating # NaN
    /\ movies[m].averageRating >= 0
    /\ movies[m].averageRating <= MaxAverageRating
    /\ movies[m].averageRating % 10 = 0


\* a request that has arrived and has not been answered
InProgress(p) == req[p].pc \notin {"idle", "done"}

\* C19: every request that has arrived is eventually answered, whatever the
\* other requests do, and an answered request is never answered again: its
\* response and everything else about it stay as they are.
C19_EveryRequestAnswered ==
  /\ \A p \in Procs : InProgress(p) ~> (req[p].pc = "done" /\ req[p].outcome # "none")
  /\ [][\A p \in Procs : req[p].pc = "done" => req'[p] = req[p]]_vars

\* all requests have been answered, a toggle-reaction and a delete of the
\* same review among them
C19_AllAnswered ==
  /\ \A p \in Procs : req[p].pc = "done"
  /\ \E p, q \in Procs :
       /\ req[p].outcome = "Reacted" /\ req[q].outcome = "Deleted"
       /\ req[p].review.id = req[q].review.id


\* C20: whenever the middleware has recomputed over an empty review set, its
\* save stores averageRating 0 and totalReviews 0, for the movie and for the
\* user alike, in pre('save') and in pre('remove').
C20_EmptySetStoresZero ==
  [][\A p \in Procs :
       /\ ((PreSaveSaveMovie(p) \/ PreRemoveSaveMovie(p))
           /\ req[p].movie.totalReviews = 0) =>
            (/\ req'[p].pc \in {"save_findUser", "remove_findUser"}
             /\ movies'[req[p].review.movie].averageRating = 0
             /\ movies'[req[p].review.movie].totalReviews = 0)
       /\ ((PreSaveSaveUser(p) \/ PreRemoveSaveUser(p))
           /\ req[p].user.totalReviews = 0) =>
            (/\ req'[p].pc \in {"insert", "update", "remove"}
             /\ users'[req[p].review.user].averageRating = 0
             /\ users'[req[p].review.user].totalReviews = 0)]_vars


\* s / n to one decimal with halves up, in tenths, as the closed formula
HalfUpTenths(s, n) == (20 * s + n) \div (2 * n)

\* C21: for every non-empty set of n reviews with ratings 1..5 and sum s,
\* the averageRating the middleware computes for the movie and for the user,
\* in pre('save') and in pre('remove'), is floor((20 s + n) / (2 n)) tenths.
C21_AverageIsHalfUpTenths ==
  [][\A p \in Procs :
       /\ (PreSaveFindReviews(p) \/ PreRemoveFindReviews(p)) =>
            LET S == ReviewsOfMovie(req[p].review.movie) IN
            req'[p].movie.averageRating =
              10 * HalfUpTenths(SumRatings(S), Cardinality(S))
       /\ (PreSaveFindUserReviews(p) \/ PreRemoveFindUserReviews(p)) =>
            LET S == ReviewsOfUser(req[p].review.user) IN
            req'[p].user.averageRating =
              10 * HalfUpTenths(SumRatings(S), Cardinality(S))]_vars

\* the middleware has computed 1.3 from the four ratings 1, 1, 1, 2, whose
\* mean 1.25 lies halfway between two tenths
C21_HalfRoundedUp ==
  \E p \in Procs :
    /\ req[p].pc = "save_saveMovie"
    /\ req[p].movie.totalReviews = 4
    /\ SumRatings(ReviewsOfMovie(req[p].review.movie)) = 5
    /\ req[p].movie.averageRating = 130


\* the responses that report success of a review mutation
MutationSuccess == {"Created", "Updated", "Deleted"}

\* C22: when the success response of a create-review, update-review or
\* delete-review request is sent, the movie save and the user save of that
\* request's middleware have completed and none is pending.
C22_SuccessAfterAggregateWrites ==
  [][\A p \in Procs :
       (/\ req[p].pc # "done" /\ req'[p].pc = "done"
        /\ req'[p].outcome \in MutationSuccess) =>
         (/\ req[p].saved = {"movie", "user"}
          /\ req[p].movie = Null /\ req[p].user = Null)]_vars

\* an update-review request has reported success after its middleware
\* changed the stored aggregates of the movie
C22_SucceededAfterChangingAggregates ==
  \E p \in Procs :
    /\ req[p].pc = "done" /\ req[p].outcome = "Updated"
    /\ "movie" \in req[p].changed
    /\ req[p].saved = {"movie", "user"}


\* the three cached aggregates of a stored movie
CachedOfMovie(doc) ==
  [averageRating |-> doc.averageRating, totalRatings |-> doc.totalRatings,
   totalReviews |-> doc.totalReviews]

\* aggregates as a function of a review set alone
MovieAggregatesOfSet(S) ==
  [averageRating |-> IF S = {} THEN 0
                     ELSE 10 * HalfUpTenths(SumRatings(S), Cardinality(S)),
   totalRatings |-> Cardinality(S), totalReviews |-> Cardinality(S)]

UserAggregatesOfSet(S) ==
  [totalReviews |-> Cardinality(S),
   averageRating |-> IF S = {} THEN 0
                     ELSE 10 * HalfUpTenths(SumRatings(S), Cardinality(S))]

\* C23: what the middleware writes to the movie and to the user is a
\* function of the review set it has read and of nothing else: whatever the
\* cached aggregates were, the values it computes are those of the set read
\* (or, for an empty set in pre('save'), a value that is never written), and
\* its save replaces every cached aggregate of the document by them.
C23_WrittenAggregatesDependOnReviewsOnly ==
  [][\A p \in Procs :
       /\ (PreSaveFindReviews(p) \/ PreRemoveFindReviews(p)) =>
            LET S == ReviewsOfMovie(req[p].review.movie) IN
            \/ req'[p].movie = MovieAggregatesOfSet(S)
            \/ S = {} /\ ~MovieValid(req'[p].movie)
       /\ (PreSaveFindUserReviews(p) \/ PreRemoveFindUserReviews(p)) =>
            req'[p].user = UserAggregatesOfSet(ReviewsOfUser(req[p].review.user))
       /\ ((PreSaveSaveMovie(p) \/ PreRemoveSaveMovie(p)) /\ req'[p].pc # "done") =>
            CachedOfMovie(movies'[req[p].review.movie]) = req[p].movie
       /\ (PreSaveSaveUser(p) \/ PreRemoveSaveUser(p)) =>
            users'[req[p].review.user] = req[p].user]_vars

\* the middleware of a review request has replaced cached aggregates that an
\* admin update had set to values of its own
C23_AdminValuesOverwritten ==
  \E p, q \in Procs :
    /\ req[p].pc = "done" /\ req[p].op = "adminUpdate"
    /\ "movie" \in req[p].changed
    /\ req[q].pc = "done" /\ req[q].outcome \in {"Updated", "Deleted", "Reacted", "Created"}
    /\ req[q].review.movie = req[p].movieId
    /\ "movie" \in req[q].changed
    /\ movies[req[p].movieId].averageRating \notin BodyAverageRatings
    /\ movies[req[p].movieId].totalRatings \notin BodyTotalRatings
    /\ movies[req[p].movieId].totalReviews \notin BodyTotalReviews



\* C24: every stored review's movie reference names a movie that exists, in
\* every reachable state, the deletion of movies included.
C24_ReviewsReferenceExistingMovies ==
  \A r \in reviews : movies[r.movie].exists



RECURSIVE SumOfSizes(_, _)
\* the sum over the reviews in S of the number of users in their likes
\* (t = "like") or dislikes (t = "dislike")
SumOfSizes(S, t) ==
  IF S = {} THEN 0
  ELSE LET r == CHOOSE x \in S : TRUE
       IN Cardinality(ReactionSet(r, t)) + SumOfSizes(S \ {r}, t)

\* C25: the statistics a user-statistics request reports have totalLikes
\* equal to the sum of the sizes of the likes sets of the user's reviews and
\* totalDislikes equal to the sum of the sizes of their dislikes sets.
C25_StatsCountDislikes ==
  [][\A p \in Procs :
       (req[p].pc = "idle" /\ req'[p].outcome = "Stats")
         => /\ req'[p].stats.totalLikes
                 = SumOfSizes(ReviewsOfUser(req'[p].actor), "like")
            /\ req'[p].stats.totalDislikes
                 = SumOfSizes(ReviewsOfUser(req'[p].actor), "dislike")]_vars



\* the steps of pre('save') at which an aggregate document is saved
AggregateSaveSteps == {"save_saveMovie", "save_saveUser"}

\* C26: a request writes a Review document (insert or update) only after
\* the movie save and then the user save of its pre('save') recomputation
\* have succeeded; when either save fails the request answers with a failure
\* and writes no review.
C26_ReviewWriteAfterAggregateWrites ==
  [][\A p \in Procs :
       /\ (req[p].pc \in {"insert", "update"} /\ reviews' # reviews)
            => req[p].saved = {"movie", "user"}
       /\ (req[p].pc \in AggregateSaveSteps /\ "user" \in req'[p].saved)
            => "movie" \in req'[p].saved
       /\ (req[p].pc \in AggregateSaveSteps /\ req'[p].saved = req[p].saved
           /\ req'[p] # req[p])
            => /\ req'[p].pc = "done" /\ req'[p].outcome = "ServerError"
               /\ reviews' = reviews]_vars

\* a create-review request has inserted its review after both saves of its
\* middleware
C26_InsertedAfterBothSaves ==
  \E p \in Procs :
    /\ req[p].pc = "done" /\ req[p].outcome = "Created"
    /\ "review" \in req[p].changed
    /\ req[p].saved = {"movie", "user"}



\* C27: an admin create or admin update of a movie, whatever its body,
\* leaves every movie's averageRating, totalRatings and totalReviews either
\* as they were or equal to the values derived from the movie's reviews.
C27_CatalogRequestsKeepAggregates ==
  [][\A p \in Procs :
       (req[p].pc = "idle" /\ req'[p].op \in {"adminCreate", "adminUpdate"})
         => \A m \in MovieIds :
              movies'[m].exists =>
                \/ /\ movies[m].exists
                   /\ CachedOfMovie(movies'[m]) = CachedOfMovie(movies[m])
                \/ CachedOfMovie(movies'[m])
                     = MovieAggregatesOfSet(ReviewsOfMovie(m))]_vars



\* C28: in every reachable state no review's likes or dislikes contains the
\* author of that review.
C28_AuthorInNoReactionSet ==
  \A r \in reviews : r.user \notin Range(r.likes) \cup Range(r.dislikes)

\* a review carries the reaction of another user, and a reaction request of
\* an author has been answered SelfReaction
C28_ReactedAndAuthorRefused ==
  \E p \in Procs, q \in Procs :
    /\ req[p].pc = "done" /\ req[p].outcome = "Reacted"
    /\ "review" \in req[p].changed
    /\ req[q].pc = "done" /\ req[q].outcome = "SelfReaction"
    /\ \E r \in reviews : Range(r.likes) \cup Range(r.dislikes) # {}



\* the fields of a review that an update request does not address
FrameOfReview(r) ==
  [id |-> r.id, user |-> r.user, movie |-> r.movie, likes |-> r.likes,
   dislikes |-> r.dislikes]

\* C29: every step of an update-review request, whatever its body, leaves
\* the owning user, target movie, likes and dislikes of every stored review
\* as they were; only rating (and the unmodelled reviewText and spoiler) can
\* change.
C29_UpdateChangesRatingOnly ==
  [][\A p \in Procs :
       (req'[p] # req[p] /\ req'[p].op = "update")
         => {FrameOfReview(r) : r \in reviews'}
              = {FrameOfReview(r) : r \in reviews}]_vars

\* an update request has changed the rating of a review that carries the
\* reaction of another user
C29_UpdatedReviewWithReactions ==
  \E p \in Procs :
    /\ req[p].pc = "done" /\ req[p].outcome = "Updated"
    /\ "review" \in req[p].changed
    /\ \E r \in reviews :
         /\ r.id = req[p].review.id
         /\ Range(r.likes) \cup Range(r.dislikes) # {}



\* the array that a reaction of type t is kept in
ReactionPath(t) == IF t = "like" THEN "likes" ELSE "dislikes"

\* request p was a completed toggle of type t by user u on a review that had
\* u in neither array: it changed array t only, by adding u
AddedToNeither(p, u, t) ==
  /\ req[p].pc = "done" /\ req[p].outcome = "Reacted"
  /\ req[p].actor = u /\ req[p].reactionType = t
  /\ req[p].modified = {ReactionPath(t)}
  /\ u \in ReactionSet(req[p].review, t)

\* two toggles of type t by u applied to doc, one after the other
ToggledTwice(doc, u, t) == ToggleReaction(ToggleReaction(doc, u, t), u, t)

\* C30: for a stored review and a user u who is not its author and is in
\* neither likes nor dislikes, two successive toggles of the same type t by
\* u, with no operation in between, leave likes and dislikes with their
\* original contents: as two calls on the document, and as two requests
\* completed one after the other.
C30_DoubleToggleRestores ==
  /\ [](\A r \in reviews, u \in Users, t \in ReactionTypes :
          (u # r.user /\ u \notin Range(r.likes) \cup Range(r.dislikes)) =>
            /\ ToggledTwice(r, u, t).likes = r.likes
            /\ ToggledTwice(r, u, t).dislikes = r.dislikes)
  /\ [][\A p \in Procs, q \in Procs, u \in Users, t \in ReactionTypes :
          (/\ p # q
           /\ AddedToNeither(p, u, t)
           /\ req[q].op = "reaction" /\ req[q].pc = "update"
           /\ req[q].actor = u /\ req[q].reactionType = t
           /\ req[q].review.id = req[p].review.id
           /\ req'[q].outcome = "Reacted") =>
            LET after == ReviewIn(reviews', req[q].review.id) IN
            /\ ReactionSet(after, t) = ReactionSet(req[p].review, t) \ {u}
            /\ OtherReactionSet(after, t) = OtherReactionSet(req[p].review, t)]_vars

\* two requests of the same user with the same reaction type have both
\* completed on a review that another user has reacted to: the first added
\* the user, the second removed the user again
C30_ToggledOnAndOff ==
  \E p \in Procs, q \in Procs, u \in Users, t \in ReactionTypes :
    /\ p # q
    /\ AddedToNeither(p, u, t)
    /\ req[q].pc = "done" /\ req[q].outcome = "Reacted"
    /\ req[q].actor = u /\ req[q].reactionType = t
    /\ req[q].review.id = req[p].review.id
    /\ "review" \in req[q].changed
    /\ \E r \in reviews :
         /\ r.id = req[p].review.id
         /\ u \notin Range(r.likes) \cup Range(r.dislikes)
         /\ Range(r.likes) # {} /\ Range(r.dislikes) # {}


====
